---- MODULE Spec2Model ----
(***************************************************************************)
(* Model of the FinOps platform: the aggregator (package aggregator, the   *)
(* second half of internal/config/config.go) with provider registration,   *)
(* the concurrent fan-out / fan-in of Aggregate, CheckBudgets and          *)
(* DetectAnomalies; the z-score detector (internal/anomaly/detector.go);   *)
(* and the chargeback allocator (package chargeback).  Costs are integers  *)
(* and derived amounts exact fractions, so float rounding is left out.     *)
(***************************************************************************)
EXTENDS Integers, Sequences, FiniteSets, TLC

\* ---------------------------------------------------------------- bounds
MaxProviders == 2      \* at most this many providers are registered
MaxEntries == 2        \* a GetCosts call returns at most this many entries
MaxBudgets == 1        \* at most this many budgets are configured

\* ------------------------------------------------------------- constants
HoursPerDay == 24      \* Date.Format("2006-01-02") keeps the day only

NoTask == "none"       \* mu is unlocked

\* Names under which a CostProvider can be registered.  "aws" and "aws2" are
\* two instances of the AWS provider (both label their entries "aws"); "gcp"
\* is the GCP provider, whose GetCosts stub succeeds with no entries.
ProviderNames == {"aws", "aws2", "gcp"}

\* CostEntry: Date is in hours; the fields Aggregate never reads are left out.
Entry(p, a, s, r, d, c) ==
    [Provider |-> p, AccountID |-> a, Service |-> s, Region |-> r,
     Date |-> d, Cost |-> c]

\* What each provider's billing API holds; GetCosts returns a prefix of it.
Billing(name) ==
    CASE name = "aws"  -> << Entry("aws", "acct1", "compute", "us", 0, 460),
                             Entry("aws", "acct2", "storage", "eu", 5, 460),
                             Entry("aws", "acct1", "storage", "us", 24, 80) >>
      [] name = "aws2" -> << Entry("aws", "acct1", "compute", "eu", 29, 300),
                             Entry("aws", "acct3", "compute", "us", 0, 50),
                             Entry("aws", "acct3", "storage", "us", 48, 10) >>
      [] name = "gcp"  -> << Entry("gcp", "proj1", "storage", "us", 24, 0),
                             Entry("gcp", "proj1", "compute", "eu", 30, 75),
                             Entry("gcp", "proj2", "compute", "eu", 0, 5) >>

Min(a, b) == IF a < b THEN a ELSE b

\* The entry lists a successful GetCosts of the named provider can return.
Responses(name) ==
    { SubSeq(Billing(name), 1, n) : n \in 0..Min(MaxEntries, Len(Billing(name))) }

\* ------------------------------------------------------------ map helpers
\* mutant: m[k] = v, the last write wins
MapAdd_Overwrite(m, k, v) ==
    IF k \in DOMAIN m THEN [m EXCEPT ![k] = v] ELSE m @@ (k :> v)

\* m[k] += v on a Go map: a missing key reads as 0 and is created.
MapAdd(m, k, v) ==
    IF k \in DOMAIN m THEN [m EXCEPT ![k] = @ + v] ELSE m @@ (k :> v)

\* m[k] on a Go map: a missing key reads as the zero value.
MapGet(m, k) == IF k \in DOMAIN m THEN m[k] ELSE 0

EmptyMap == << >>

RECURSIVE SumMap(_)
SumMap(m) ==
    IF DOMAIN m = {} THEN 0
    ELSE LET k == CHOOSE x \in DOMAIN m : TRUE
         IN m[k] + SumMap([x \in DOMAIN m \ {k} |-> m[x]])

RECURSIVE SumCost(_)
SumCost(es) == IF es = << >> THEN 0 ELSE Head(es).Cost + SumCost(Tail(es))

\* entry.Date.Format("2006-01-02"): the day the instant falls on.
FormatDate(d) == d \div HoursPerDay

\* ------------------------------------------------------ AggregationResult
EmptyResult ==
    [TotalCost |-> 0, ByProvider |-> EmptyMap, ByService |-> EmptyMap,
     ByAccount |-> EmptyMap, ByRegion |-> EmptyMap, ByDate |-> EmptyMap,
     Entries |-> << >>]

\* mutant: ByProvider is keyed by the account
MergeEntry_ProviderKeyTypo(res, e) ==
    [TotalCost  |-> res.TotalCost + e.Cost,
     ByProvider |-> MapAdd(res.ByProvider, e.AccountID, e.Cost),
     ByService  |-> MapAdd(res.ByService, e.Service, e.Cost),
     ByAccount  |-> MapAdd(res.ByAccount, e.AccountID, e.Cost),
     ByRegion   |-> MapAdd(res.ByRegion, e.Region, e.Cost),
     ByDate     |-> MapAdd(res.ByDate, FormatDate(e.Date), e.Cost),
     Entries    |-> Append(res.Entries, e)]

\* mutant: the region breakdown is not updated
MergeEntry_SkipRegion(res, e) ==
    [TotalCost  |-> res.TotalCost + e.Cost,
     ByProvider |-> MapAdd(res.ByProvider, e.Provider, e.Cost),
     ByService  |-> MapAdd(res.ByService, e.Service, e.Cost),
     ByAccount  |-> MapAdd(res.ByAccount, e.AccountID, e.Cost),
     ByRegion   |-> res.ByRegion,
     ByDate     |-> MapAdd(res.ByDate, FormatDate(e.Date), e.Cost),
     Entries    |-> Append(res.Entries, e)]

\* The body of the merge loop, for one entry.
MergeEntry(res, e) ==
    [TotalCost  |-> res.TotalCost + e.Cost,
     ByProvider |-> MapAdd(res.ByProvider, e.Provider, e.Cost),
     ByService  |-> MapAdd(res.ByService, e.Service, e.Cost),
     ByAccount  |-> MapAdd(res.ByAccount, e.AccountID, e.Cost),
     ByRegion   |-> MapAdd(res.ByRegion, e.Region, e.Cost),
     ByDate     |-> MapAdd(res.ByDate, FormatDate(e.Date), e.Cost),
     Entries    |-> Append(res.Entries, e)]


\* ----------------------------------------------------------------- Budget
Budget(n, p, s, l, a) ==
    [Name |-> n, Provider |-> p, Scope |-> s, MonthlyLimit |-> l, AlertAt |-> a]

\* The budgets a configuration file can list.
BudgetCatalogue ==
    { Budget("total",    "all", "",      1000, << 50, 75, 90 >>),
      Budget("aws",      "aws", "",      1000, << 90, 50 >>),
      Budget("acct1",    "aws", "acct1", 460,  << 100, 75 >>),
      Budget("nofilter", "",    "",      1000, << 25 >>),
      Budget("gcp",      "gcp", "",      0,    << 95, 10 >>),
      Budget("silent",   "all", "",      100,  << >>) }

RECURSIVE SeqsOver(_, _)
\* the sequences of at most n distinct elements of S
SeqsOver(S, n) ==
    IF n = 0 THEN { << >> }
    ELSE LET shorter == SeqsOver(S, n - 1)
         IN shorter \cup { Append(q, x) : q \in shorter, x \in S }

NoRepeat(q) == \A i, j \in 1..Len(q) : q[i] = q[j] => i = j

\* config.Budgets
BudgetConfigs == { q \in SeqsOver(BudgetCatalogue, MaxBudgets) : NoRepeat(q) }

\* currentSpend of one budget
CurrentSpend(budget, res) ==
    LET byProvider == IF budget.Provider = "all"
                      THEN res.TotalCost
                      ELSE MapGet(res.ByProvider, budget.Provider)
    IN IF budget.Scope # "" THEN MapGet(res.ByAccount, budget.Scope)
       ELSE byProvider

\* (currentSpend / budget.MonthlyLimit) * 100, kept as an exact fraction.
\* den = 0 is the float division by zero: +Inf when num > 0, NaN when num = 0.
PercentUsed(spend, limit) == [num |-> spend * 100, den |-> limit]

\* percentUsed >= float64(alertAt); every comparison with NaN is false
PercentGeq(pct, alertAt) ==
    IF pct.den = 0 THEN pct.num > 0 ELSE pct.num >= alertAt * pct.den

\* the severity chain inside the threshold loop
Severity(alertAt) ==
    IF alertAt >= 90 THEN "high"
    ELSE IF alertAt >= 75 THEN "medium"
    ELSE IF alertAt >= 50 THEN "low"
    ELSE "info"

\* BudgetAlert.  AlertAt is not a field of the struct: it records which list
\* entry fired.  AlertedAt (the wall clock) is left out.
BudgetAlert(budget, spend, alertAt) ==
    [BudgetName |-> budget.Name, Provider |-> budget.Provider,
     Scope |-> budget.Scope, BudgetLimit |-> budget.MonthlyLimit,
     CurrentSpend |-> spend,
     PercentUsed |-> PercentUsed(spend, budget.MonthlyLimit),
     Severity |-> Severity(alertAt), AlertAt |-> alertAt]

RECURSIVE ThresholdLoop_NoBreak(_, _, _)
\* mutant: the loop has no break, every threshold met raises an alert
ThresholdLoop_NoBreak(budget, spend, list) ==
    IF list = << >> THEN << >>
    ELSE IF PercentGeq(PercentUsed(spend, budget.MonthlyLimit), Head(list))
         THEN << BudgetAlert(budget, spend, Head(list)) >>
              \o ThresholdLoop_NoBreak(budget, spend, Tail(list))
         ELSE ThresholdLoop_NoBreak(budget, spend, Tail(list))

RECURSIVE ThresholdLoop(_, _, _)
\* for _, alertAt := range budget.AlertAt { if ... { append; break } }
ThresholdLoop(budget, spend, list) ==
    IF list = << >> THEN << >>
    ELSE IF PercentGeq(PercentUsed(spend, budget.MonthlyLimit), Head(list))
         THEN << BudgetAlert(budget, spend, Head(list)) >>
         ELSE ThresholdLoop(budget, spend, Tail(list))

RECURSIVE CheckBudgets(_, _)
\* the alerts CheckBudgets returns for the budget list bs
CheckBudgets(bs, res) ==
    IF bs = << >> THEN << >>
    ELSE ThresholdLoop(Head(bs), CurrentSpend(Head(bs), res), Head(bs).AlertAt)
         \o CheckBudgets(Tail(bs), res)

\* ============================================================ CostRecord
\* normalizer.CostRecord: Date is in days; the fields that neither the
\* detector nor the allocator reads are left out.  Tags is a Go map.
Record(cloud, account, service, date, cost, tags) ==
    [Cloud |-> cloud, Account |-> account, Service |-> service,
     Date |-> date, Cost |-> cost, Tags |-> tags]

NoTags == << >>

\* a fraction num / den; den = 0 is the float division by zero
Frac(n, d) == [num |-> n, den |-> d]

\* f > k and f < k for a fraction with den >= 0 (+Inf, -Inf and NaN at den = 0)
FracGt(f, k) == IF f.den = 0 THEN f.num > 0 ELSE f.num > k * f.den

FracLt(f, k) == IF f.den = 0 THEN f.num < 0 ELSE f.num < k * f.den

\* ============================================================== Detector
Now == 100             \* time.Now(), as a day number

RecentDays == 7        \* Detect asks getRecentRecords for the last 7 days

\* mutant: an unknown sensitivity is treated as low
Threshold_DefaultLow(sensitivity) ==
    CASE sensitivity = "medium" -> Frac(2, 1)
      [] sensitivity = "high"   -> Frac(3, 2)
      [] OTHER                  -> Frac(3, 1)

\* NewDetector's thresholds map, read with d.thresholds[sensitivity]: a
\* sensitivity that is not a key reads as the zero value.
Threshold(sensitivity) ==
    CASE sensitivity = "low"    -> Frac(3, 1)
      [] sensitivity = "medium" -> Frac(2, 1)
      [] sensitivity = "high"   -> Frac(3, 2)
      [] OTHER                  -> Frac(0, 1)

\* mutant: the key is the service alone
PartitionKey_ServiceOnly(r) == r.Service

\* key := r.Cloud + ":" + r.Service
PartitionKey(r) == r.Cloud \o ":" \o r.Service

\* byService[key], in the order of the input
Group(records, key) == SelectSeq(records, LAMBDA r : PartitionKey(r) = key)

Front(s) == SubSeq(s, 1, Len(s) - 1)

RECURSIVE InsertByDate(_, _)
\* one pass of the insertion sort behind sort.Slice (slices of at most 12
\* elements), with less = Date.Before
InsertByDate(s, r) ==
    IF s = << >> \/ ~(r.Date < s[Len(s)].Date) THEN Append(s, r)
    ELSE Append(InsertByDate(Front(s), r), s[Len(s)])

RECURSIVE SortByDate(_)
SortByDate(s) ==
    IF s = << >> THEN << >> ELSE InsertByDate(SortByDate(Front(s)), s[Len(s)])

RECURSIVE SumOf(_)
SumOf(vs) == IF vs = << >> THEN 0 ELSE Head(vs) + SumOf(Tail(vs))

RECURSIVE SumSqOf(_)
SumSqOf(vs) == IF vs = << >> THEN 0 ELSE Head(vs) * Head(vs) + SumSqOf(Tail(vs))

RECURSIVE MinOf(_)
MinOf(vs) ==
    IF Len(vs) = 1 THEN Head(vs)
    ELSE LET m == MinOf(Tail(vs)) IN IF Head(vs) < m THEN Head(vs) ELSE m

RECURSIVE MaxOf(_)
MaxOf(vs) ==
    IF Len(vs) = 1 THEN Head(vs)
    ELSE LET m == MaxOf(Tail(vs)) IN IF Head(vs) > m THEN Head(vs) ELSE m

\* Baseline{}: the zero value
EmptyBaseline == [Mean |-> Frac(0, 1), VarNum |-> 0, Min |-> 0, Max |-> 0, Count |-> 0]

\* mutant: the records on the cutoff day are in the baseline window too
InBaselineWindow_Inclusive(r, cfg) == r.Date <= Now - cfg.BaselineDays

\* r.Date.Before(cutoff), cutoff = now - BaselineDays
InBaselineWindow(r, cfg) == r.Date < Now - cfg.BaselineDays

\* calculateBaseline.  With n values of sum S, Mean is S / n and the
\* population variance is VarNum / n^2 where VarNum = n * sum(v^2) - S^2, so
\* StdDev = sqrt(VarNum) / n and StdDev = 0 exactly when VarNum = 0.
calculateBaseline(records, cfg) ==
    LET window == SelectSeq(records, LAMBDA r : InBaselineWindow(r, cfg))
        values == [i \in 1..Len(window) |-> window[i].Cost]
        n == Len(values)
    IN IF n = 0 THEN EmptyBaseline
       ELSE [Mean |-> Frac(SumOf(values), n),
             VarNum |-> n * SumSqOf(values) - SumOf(values) * SumOf(values),
             Min |-> MinOf(values), Max |-> MaxOf(values), Count |-> n]

\* getRecentRecords: r.Date.After(cutoff), cutoff = now - days
getRecentRecords(records, days) ==
    SelectSeq(records, LAMBDA r : r.Date > Now - days)

\* baseline.Mean < d.config.MinSpend
BelowMinSpend(baseline, cfg) == baseline.Mean.num < cfg.MinSpend * baseline.Mean.den

\* the z-score (cost - Mean) / StdDev = ZNum / sqrt(VarNum)
ZNum(cost, baseline) == cost * baseline.Mean.den - baseline.Mean.num

\* mutant: a z-score equal to the threshold is not enough
AbsZGeq_Strict(cost, baseline, t) ==
    ZNum(cost, baseline) * ZNum(cost, baseline) * t.den * t.den
        > t.num * t.num * baseline.VarNum

\* math.Abs(zScore) >= t for a threshold t >= 0, compared on the squares
AbsZGeq(cost, baseline, t) ==
    ZNum(cost, baseline) * ZNum(cost, baseline) * t.den * t.den
        >= t.num * t.num * baseline.VarNum

\* mutant: the tiers start one step too high
ZSeverity_ShiftedTiers(cost, baseline) ==
    IF AbsZGeq(cost, baseline, Frac(5, 1)) THEN "critical"
    ELSE IF AbsZGeq(cost, baseline, Frac(4, 1)) THEN "high"
    ELSE IF AbsZGeq(cost, baseline, Frac(3, 1)) THEN "medium"
    ELSE "low"

\* the severity chain of checkAnomaly
ZSeverity(cost, baseline) ==
    IF AbsZGeq(cost, baseline, Frac(4, 1)) THEN "critical"
    ELSE IF AbsZGeq(cost, baseline, Frac(3, 1)) THEN "high"
    ELSE IF AbsZGeq(cost, baseline, Frac(2, 1)) THEN "medium"
    ELSE "low"

\* ((r.Cost - baseline.Mean) / baseline.Mean) * 100
PercentChange(cost, baseline) ==
    Frac(ZNum(cost, baseline) * 100, baseline.Mean.num)

\* determineReason
determineReason(percentChange) ==
    IF FracGt(percentChange, 100) THEN "spike"
    ELSE IF FracGt(percentChange, 50) THEN "notable increase"
    ELSE IF FracLt(percentChange, -50) THEN "significant decrease"
    ELSE IF FracGt(percentChange, 20) THEN "moderate increase"
    ELSE "deviation"

\* the Anomaly checkAnomaly builds; Deviation is znum / sqrt(varnum)
MakeAnomaly(r, baseline) ==
    [Date |-> r.Date, Service |-> r.Service, Account |-> r.Account,
     Cloud |-> r.Cloud, ActualCost |-> r.Cost, ExpectedCost |-> baseline.Mean,
     Deviation |-> [znum |-> ZNum(r.Cost, baseline), varnum |-> baseline.VarNum],
     PercentChange |-> PercentChange(r.Cost, baseline),
     Reason |-> determineReason(PercentChange(r.Cost, baseline)),
     Severity |-> ZSeverity(r.Cost, baseline)]

\* mutant: no guard against a zero standard deviation
ZeroVariance_Unchecked(baseline) == FALSE

\* baseline.StdDev == 0
ZeroVariance(baseline) == baseline.VarNum = 0

\* checkAnomaly: the anomalies (none or one) it yields for the record r
checkAnomaly(r, baseline, cfg) ==
    IF ZeroVariance(baseline) THEN << >>
    ELSE IF ~AbsZGeq(r.Cost, baseline, Threshold(cfg.Sensitivity)) THEN << >>
    ELSE << MakeAnomaly(r, baseline) >>

RECURSIVE CheckRecent(_, _, _)
\* the loop over recentRecords
CheckRecent(recent, baseline, cfg) ==
    IF recent = << >> THEN << >>
    ELSE checkAnomaly(Head(recent), baseline, cfg)
         \o CheckRecent(Tail(recent), baseline, cfg)

\* the body of the loop over byService, for one partition
DetectPartition(serviceRecords, cfg) ==
    LET sorted == SortByDate(serviceRecords)
        baseline == calculateBaseline(sorted, cfg)
    IN IF BelowMinSpend(baseline, cfg) THEN << >>
       ELSE CheckRecent(getRecentRecords(sorted, RecentDays), baseline, cfg)

\* severityRank
severityRank(severity) ==
    CASE severity = "critical" -> 4
      [] severity = "high"     -> 3
      [] severity = "medium"   -> 2
      [] severity = "low"      -> 1
      [] OTHER                 -> 0

RECURSIVE InsertBySeverity(_, _)
\* one pass of the insertion sort, with less = higher severity rank
InsertBySeverity(s, a) ==
    IF s = << >> \/ ~(severityRank(a.Severity) > severityRank(s[Len(s)].Severity))
    THEN Append(s, a)
    ELSE Append(InsertBySeverity(Front(s), a), s[Len(s)])

\* mutant: the anomalies stay in the order they were found
SortBySeverity_Unsorted(s) == s

RECURSIVE SortBySeverity(_)
SortBySeverity(s) ==
    IF s = << >> THEN << >>
    ELSE InsertBySeverity(SortBySeverity(Front(s)), s[Len(s)])

\* the keys of byService
PartitionKeys(records) == { PartitionKey(records[i]) : i \in 1..Len(records) }

\* the orders in which a range over a Go map with key set S can visit it
IterationOrders(S) ==
    { q \in [1..Cardinality(S) -> S] : \A i, j \in 1..Cardinality(S) : q[i] = q[j] => i = j }

RECURSIVE DetectLoop(_, _, _)
\* the loop over byService, visiting the keys in the given order
DetectLoop(records, cfg, order) ==
    IF order = << >> THEN << >>
    ELSE DetectPartition(Group(records, Head(order)), cfg)
         \o DetectLoop(records, cfg, Tail(order))

\* Detect, for one iteration order of byService
Detect(records, cfg, order) ==
    IF Len(records) = 0 THEN << >>
    ELSE SortBySeverity(DetectLoop(records, cfg, order))

\* mutant: the date sort runs on the caller's slice
CallerSliceAfterDetect_SortedInPlace(rs) == SortByDate(rs)

\* the caller's slice once Detect has returned: byService[key] =
\* append(byService[key], r) copies every record into arrays of the map, and
\* sort.Slice permutes those arrays only
CallerSliceAfterDetect(rs) == rs

\* ------------------------------------------- Aggregator.DetectAnomalies
MinDataPoints == 7     \* DetectAnomalies skips series of fewer than 7 costs

\* key := fmt.Sprintf("%s:%s:%s", entry.Provider, entry.AccountID, entry.Service)
SeriesKey(e) == e.Provider \o ":" \o e.AccountID \o ":" \o e.Service

\* serviceDaily[key]
Series(entries, key) ==
    LET es == SelectSeq(entries, LAMBDA e : SeriesKey(e) = key)
    IN [i \in 1..Len(es) |-> es[i].Cost]

\* the severity chain of DetectAnomalies, on deviation = devNum / sum * 100
DeviationSeverity(dev, threshold) ==
    IF FracGt(dev, threshold * 3) THEN "high"
    ELSE IF FracGt(dev, threshold * 2) THEN "medium"
    ELSE "low"

\* the body of the loop over serviceDaily, for one series
CheckSeries(key, costs, acfg) ==
    LET n == Len(costs)
        sum == SumOf(costs)
        recent == costs[n]
        deviation == Frac((recent * n - sum) * 100, sum)
    IN IF n < MinDataPoints THEN << >>
       ELSE IF sum < acfg.MinimumCostThreshold * n THEN << >>
       ELSE IF ~FracGt(deviation, acfg.DeviationThreshold) THEN << >>
       ELSE << [Service |-> key, ActualCost |-> recent,
                ExpectedCost |-> Frac(sum, n),
                PercentageDeviation |-> deviation,
                Severity |-> DeviationSeverity(deviation, acfg.DeviationThreshold)] >>

RECURSIVE DetectAnomaliesLoop(_, _, _)
DetectAnomaliesLoop(entries, acfg, order) ==
    IF order = << >> THEN << >>
    ELSE CheckSeries(Head(order), Series(entries, Head(order)), acfg)
         \o DetectAnomaliesLoop(entries, acfg, Tail(order))

\* Aggregator.DetectAnomalies(result), for one iteration order of serviceDaily
DetectAnomalies(entries, acfg, order) ==
    IF ~acfg.Enabled THEN << >> ELSE DetectAnomaliesLoop(entries, acfg, order)

\* ============================================================= Allocator
\* amounts of money are exact fractions in lowest terms

RECURSIVE GCD(_, _)
GCD(a, b) == IF b = 0 THEN a ELSE GCD(b, a % b)

Abs(n) == IF n < 0 THEN -n ELSE n

\* n / d in lowest terms, for d > 0
QNorm(n, d) ==
    LET g == GCD(Abs(n), d) IN Frac(n \div g, d \div g)

Q(n) == Frac(n, 1)

QAdd(a, b) == QNorm(a.num * b.den + b.num * a.den, a.den * b.den)

QMul(a, b) == QNorm(a.num * b.num, a.den * b.den)

\* a / b, for b > 0
QDiv(a, b) == QNorm(a.num * b.den, a.den * b.num)

QGt(a, b) == a.num * b.den > b.num * a.den

\* &Allocation{CostCenter: cc, ByCloud: make(...), ByService: make(...)}
NewAllocation(cc) ==
    [CostCenter |-> cc, TotalCost |-> Q(0), DirectCost |-> Q(0),
     AllocatedCost |-> Q(0), ByCloud |-> EmptyMap, ByService |-> EmptyMap,
     Records |-> << >>]

\* if _, exists := allocations[cc]; !exists { allocations[cc] = &Allocation{...} }
Ensure(allocs, cc) ==
    IF cc \in DOMAIN allocs THEN allocs ELSE allocs @@ (cc :> NewAllocation(cc))

\* mutant: a tag that is present counts even when its value is empty
HasTag_AllowEmpty(tags, tag) == tag \in DOMAIN tags

\* cc, ok := r.Tags[tag]; ok && cc != ""
HasTag(tags, tag) == tag \in DOMAIN tags /\ tags[tag] # ""

\* getCostCenter
getCostCenter(r, cfg) ==
    IF HasTag(r.Tags, cfg.PrimaryTag) THEN r.Tags[cfg.PrimaryTag]
    ELSE IF HasTag(r.Tags, cfg.FallbackTag) THEN r.Tags[cfg.FallbackTag]
    ELSE ""

\* mutant: the direct cost is not added to the total
AddDirect_NoTotal(alloc, r) ==
    [alloc EXCEPT !.DirectCost = QAdd(@, Q(r.Cost)),
                  !.ByCloud = MapAdd(@, r.Cloud, r.Cost),
                  !.ByService = MapAdd(@, r.Service, r.Cost),
                  !.Records = Append(@, r)]

\* the five updates Allocate makes for a tagged record
AddDirect(alloc, r) ==
    [alloc EXCEPT !.TotalCost = QAdd(@, Q(r.Cost)),
                  !.DirectCost = QAdd(@, Q(r.Cost)),
                  !.ByCloud = MapAdd(@, r.Cloud, r.Cost),
                  !.ByService = MapAdd(@, r.Service, r.Cost),
                  !.Records = Append(@, r)]

RECURSIVE AllocateLoop(_, _, _, _)
\* the loop of Allocate over records: the allocations and untaggedCosts
AllocateLoop(rs, cfg, allocs, untagged) ==
    IF rs = << >> THEN [allocations |-> allocs, untaggedCosts |-> untagged]
    ELSE LET r == Head(rs)
             cc == getCostCenter(r, cfg)
         IN IF cc = "" THEN AllocateLoop(Tail(rs), cfg, allocs, Append(untagged, r))
            ELSE AllocateLoop(Tail(rs), cfg,
                     [Ensure(allocs, cc) EXCEPT ![cc] = AddDirect(@, r)], untagged)

\* alloc.AllocatedCost += allocated; alloc.TotalCost += allocated
AddAllocated(alloc, allocated) ==
    [alloc EXCEPT !.AllocatedCost = QAdd(@, allocated),
                  !.TotalCost = QAdd(@, allocated)]

RECURSIVE TotalDirect(_)
\* the sum of DirectCost over the allocations
TotalDirect(allocs) ==
    IF DOMAIN allocs = {} THEN Q(0)
    ELSE LET k == CHOOSE x \in DOMAIN allocs : TRUE
         IN QAdd(allocs[k].DirectCost,
                 TotalDirect([x \in DOMAIN allocs \ {k} |-> allocs[x]]))

\* mutant: without direct cost the amount is split evenly
distributeProportionally_SplitWhenNoDirect(allocs, amount) ==
    IF TotalDirect(allocs) = Q(0)
    THEN [cc \in DOMAIN allocs |->
             AddAllocated(allocs[cc], QDiv(amount, Q(Cardinality(DOMAIN allocs))))]
    ELSE [cc \in DOMAIN allocs |->
             AddAllocated(allocs[cc],
                 QMul(amount, QDiv(allocs[cc].DirectCost, TotalDirect(allocs))))]

\* mutant: every center gets an equal share
distributeProportionally_Evenly(allocs, amount) ==
    IF TotalDirect(allocs) = Q(0) THEN allocs
    ELSE [cc \in DOMAIN allocs |->
             AddAllocated(allocs[cc], QDiv(amount, Q(Cardinality(DOMAIN allocs))))]

\* distributeProportionally
distributeProportionally(allocs, amount) ==
    IF TotalDirect(allocs) = Q(0) THEN allocs
    ELSE [cc \in DOMAIN allocs |->
             AddAllocated(allocs[cc],
                 QMul(amount, QDiv(allocs[cc].DirectCost, TotalDirect(allocs))))]

\* one pass of the loop over SharedCostSplit:
\* allocated := totalUntagged * (rule.Percentage / 100)
ApplyRule(allocs, rule, totalUntagged) ==
    [Ensure(allocs, rule.CostCenter) EXCEPT ![rule.CostCenter] =
        AddAllocated(@, QMul(totalUntagged, QNorm(rule.Percentage, 100)))]

RECURSIVE ApplyRules(_, _, _, _)
\* the loop over SharedCostSplit: the allocations and remainingPct
ApplyRules(allocs, rules, totalUntagged, remainingPct) ==
    IF rules = << >> THEN [allocations |-> allocs, remainingPct |-> remainingPct]
    ELSE ApplyRules(ApplyRule(allocs, Head(rules), totalUntagged), Tail(rules),
                    totalUntagged, remainingPct - Head(rules).Percentage)

RECURSIVE AddBreakdown(_, _)
\* the loop over untagged in the pool branch
AddBreakdown(alloc, untagged) ==
    IF untagged = << >> THEN alloc
    ELSE AddBreakdown([alloc EXCEPT !.ByCloud = MapAdd(@, Head(untagged).Cloud, Head(untagged).Cost),
                                    !.ByService = MapAdd(@, Head(untagged).Service, Head(untagged).Cost)],
                      Tail(untagged))

\* mutant: the pool name wins over the rules
UseRules_PoolFirst(cfg) == Len(cfg.SharedCostSplit) > 0 /\ cfg.UntaggedPool = ""

\* len(a.config.SharedCostSplit) > 0
UseRules(cfg) == Len(cfg.SharedCostSplit) > 0

\* allocateUntagged
allocateUntagged(allocs, untagged, cfg) ==
    LET totalUntagged == Q(SumCost(untagged))
        ruled == ApplyRules(allocs, cfg.SharedCostSplit, totalUntagged, 100)
    IN IF Len(untagged) = 0 THEN allocs
       ELSE IF UseRules(cfg) THEN
               IF ruled.remainingPct > 0
               THEN distributeProportionally(ruled.allocations,
                        QMul(totalUntagged, QNorm(ruled.remainingPct, 100)))
               ELSE ruled.allocations
       ELSE IF cfg.UntaggedPool # "" THEN
               [Ensure(allocs, cfg.UntaggedPool) EXCEPT ![cfg.UntaggedPool] =
                   AddBreakdown(AddAllocated(@, totalUntagged), untagged)]
       ELSE distributeProportionally(allocs, totalUntagged)

\* Allocate
Allocate(rs, cfg) ==
    LET split == AllocateLoop(rs, cfg, EmptyMap, << >>)
    IN allocateUntagged(split.allocations, split.untaggedCosts, cfg)

\* the caller's slice once Allocate has returned: the loop reads copies of
\* the records and appends copies to alloc.Records
CallerSliceAfterAllocate(rs) == rs

RECURSIVE InsertByTotal(_, _)
\* one pass of the insertion sort, with less = greater TotalCost
InsertByTotal(s, a) ==
    IF s = << >> \/ ~QGt(a.TotalCost, s[Len(s)].TotalCost) THEN Append(s, a)
    ELSE Append(InsertByTotal(Front(s), a), s[Len(s)])

RECURSIVE SortByTotal(_)
SortByTotal(s) ==
    IF s = << >> THEN << >> ELSE InsertByTotal(SortByTotal(Front(s)), s[Len(s)])

RECURSIVE SumTotals(_)
\* report.TotalCost += alloc.TotalCost, over the appended allocations
SumTotals(s) ==
    IF s = << >> THEN Q(0) ELSE QAdd(SumTotals(Front(s)), s[Len(s)].TotalCost)

\* GenerateReport, for one iteration order of the allocations map
GenerateReport(allocs, month, order) ==
    LET appended == [i \in 1..Len(order) |-> allocs[order[i]]]
    IN [Month |-> month, Allocations |-> SortByTotal(appended),
        TotalCost |-> SumTotals(appended)]

NoReport == [Month |-> "", Allocations |-> << >>, TotalCost |-> Q(0)]

VARIABLES
    config,        \* a.config.Budgets
    providers,     \* a.providers: the registered names
    ctxCancelled,  \* the caller's ctx is done
    mainPc,        \* position of the goroutine running Aggregate
    snapshot,      \* Aggregate's local copy of a.providers
    taskPc,        \* position of each fetch goroutine
    fetched,       \* each goroutine's local entries
    fetchErr,      \* each goroutine's local err: "nil", "failed" or "aborted"
    idx,           \* each goroutine's position in its merge loop
    loaded,        \* each goroutine's read of the result, until it stores it
    mu,            \* holder of the local mutex mu
    result,        \* the shared AggregationResult
    errCh,         \* buffered error channel: names of the wrapped errors
    errClosed,     \* errCh has been closed
    errs,          \* errors collected by Aggregate
    ret,           \* what Aggregate returned
    checked,       \* CheckBudgets has run on the returned result
    spent,         \* CheckBudgets' currentSpend, per budget
    alerts,        \* the alerts CheckBudgets returned
    records,       \* the []CostRecord handed to Detect, DetectAnomalies, Allocate
    detCfg,        \* the Detector's config
    anomalyCfg,    \* a.config.Anomaly
    detPc,         \* "idle", or "done" once Detect has returned
    anomalies,     \* what Detect returned
    aggPc,         \* "idle", or "done" once DetectAnomalies has returned
    aggAnomalies,  \* what DetectAnomalies returned
    allocCfg,      \* the Allocator's config
    allocPc,       \* "idle", "allocated" or "reported"
    allocations,   \* the map Allocate returned
    report         \* the Report GenerateReport built

vars == << providers, ctxCancelled, mainPc, snapshot, taskPc, fetched,
           fetchErr, idx, loaded, mu, result, errCh, errClosed, errs, ret,
           config, checked, spent, alerts, records, detCfg, anomalyCfg, detPc,
           anomalies, aggPc, aggAnomalies, allocCfg, allocPc, allocations,
           report >>

budgetVars == << config, checked, spent, alerts >>

detectVars == << detCfg, anomalyCfg, detPc, anomalies, aggPc, aggAnomalies >>

allocVars == << allocCfg, allocPc, allocations, report >>

aggregateVars == << providers, ctxCancelled, mainPc, snapshot, taskPc, fetched,
                    fetchErr, idx, loaded, mu, result, errCh, errClosed, errs,
                    ret >>

NotReturned == [kind |-> "none", errs |-> << >>]

\* New(cfg): no provider registered, nothing running
AggregatorInit ==
    /\ checked = FALSE
    /\ spent = << >>
    /\ alerts = << >>
    /\ providers = {}
    /\ ctxCancelled = FALSE
    /\ mainPc = "idle"
    /\ snapshot = {}
    /\ taskPc = [p \in ProviderNames |-> "unborn"]
    /\ fetched = [p \in ProviderNames |-> << >>]
    /\ fetchErr = [p \in ProviderNames |-> "nil"]
    /\ idx = [p \in ProviderNames |-> 0]
    /\ loaded = [p \in ProviderNames |-> << >>]
    /\ mu = NoTask
    /\ result = EmptyResult
    /\ errCh = << >>
    /\ errClosed = FALSE
    /\ errs = << >>
    /\ ret = NotReturned

\* no detector or allocator has been handed anything
DetectorIdle ==
    /\ detCfg = [Sensitivity |-> "medium", BaselineDays |-> 30, MinSpend |-> 100]
    /\ anomalyCfg = [Enabled |-> FALSE, DeviationThreshold |-> 25,
                     MinimumCostThreshold |-> 0]
    /\ detPc = "idle"
    /\ anomalies = << >>
    /\ aggPc = "idle"
    /\ aggAnomalies = << >>

AllocatorIdle ==
    /\ allocCfg = [PrimaryTag |-> "cost_center", FallbackTag |-> "team",
                   UntaggedPool |-> "IT-SHARED", SharedCostSplit |-> << >>]
    /\ allocPc = "idle"
    /\ allocations = EmptyMap
    /\ report = NoReport

Init ==
    /\ config \in BudgetConfigs
    /\ AggregatorInit
    /\ records = << >>
    /\ DetectorIdle
    /\ AllocatorIdle

\* RegisterProvider(name, provider)
RegisterProvider(name) ==
    /\ mainPc = "idle"
    /\ name \notin providers
    /\ Cardinality(providers) < MaxProviders
    /\ providers' = providers \cup {name}
    /\ UNCHANGED << ctxCancelled, mainPc, snapshot, taskPc, fetched, fetchErr,
                    idx, mu, result, errCh, errClosed, errs, ret,
                    loaded, budgetVars, records, detectVars, allocVars >>

\* The caller cancels ctx (or its deadline passes).
Cancel ==
    /\ mainPc \in {"idle", "wait"}
    /\ ~ctxCancelled
    /\ ctxCancelled' = TRUE
    /\ UNCHANGED << providers, mainPc, snapshot, taskPc, fetched, fetchErr,
                    idx, mu, result, errCh, errClosed, errs, ret,
                    loaded, budgetVars, records, detectVars, allocVars >>

\* Aggregate up to wg.Wait: snapshot the providers, make the result and the
\* channel, start one goroutine per provider.
AggregateStart ==
    /\ mainPc = "idle"
    /\ snapshot' = providers
    /\ result' = EmptyResult
    /\ errCh' = << >>
    /\ taskPc' = [p \in ProviderNames |-> IF p \in providers THEN "fetch" ELSE "unborn"]
    /\ mainPc' = "wait"
    /\ UNCHANGED << providers, ctxCancelled, fetched, fetchErr, idx, mu,
                    errClosed, errs, ret,
                    loaded, budgetVars, records, detectVars, allocVars >>

\* mutant: the error channel is one slot short
ErrChCap_OneShort == Cardinality(snapshot) - 1

\* cap(errCh)
ErrChCap == Cardinality(snapshot)

\* provider.GetCosts(ctx, start, end) returns in goroutine p.
\* A fetch can fail on its own; under a cancelled ctx it can also abort.
GetCostsErrors == IF ctxCancelled THEN {"failed", "aborted"} ELSE {"failed"}

TaskFetchFrom(p, responses) ==
    /\ taskPc[p] = "fetch"
    /\ \/ \E es \in responses :
             /\ fetched' = [fetched EXCEPT ![p] = es]
             /\ taskPc' = [taskPc EXCEPT ![p] = "lock"]
             /\ UNCHANGED fetchErr
       \/ \E e \in GetCostsErrors :
             /\ fetchErr' = [fetchErr EXCEPT ![p] = e]
             /\ taskPc' = [taskPc EXCEPT ![p] = "send"]
             /\ UNCHANGED fetched
    /\ UNCHANGED << providers, ctxCancelled, mainPc, snapshot, idx, mu,
                    result, errCh, errClosed, errs, ret,
                    loaded, budgetVars, records, detectVars, allocVars >>

TaskFetch(p) == TaskFetchFrom(p, Responses(p))

\* errCh <- fmt.Errorf("%s: %w", name, err); return (wg.Done)
TaskSendErr(p) ==
    /\ taskPc[p] = "send"
    /\ Len(errCh) < ErrChCap
    /\ errCh' = Append(errCh, p)
    /\ taskPc' = [taskPc EXCEPT ![p] = "done"]
    /\ UNCHANGED << providers, ctxCancelled, mainPc, snapshot, fetched,
                    fetchErr, idx, mu, result, errClosed, errs, ret,
                    loaded, budgetVars, records, detectVars, allocVars >>

\* mutant: the merge takes no lock
MuFree_Always == TRUE

\* mu.Lock()
MuFree == mu = NoTask

TaskLock(p) ==
    /\ taskPc[p] = "lock"
    /\ MuFree
    /\ mu' = p
    /\ idx' = [idx EXCEPT ![p] = 1]
    /\ taskPc' = [taskPc EXCEPT ![p] = "merge"]
    /\ UNCHANGED << providers, ctxCancelled, mainPc, snapshot, fetched,
                    fetchErr, result, errCh, errClosed, errs, ret,
                    loaded, budgetVars, records, detectVars, allocVars >>

\* one iteration of the merge loop, first half: the goroutine reads the
\* shared result (the operands of append and of the six +=)
TaskLoad(p) ==
    /\ taskPc[p] = "merge"
    /\ idx[p] <= Len(fetched[p])
    /\ loaded[p] = << >>
    /\ loaded' = [loaded EXCEPT ![p] = << result >>]
    /\ UNCHANGED << providers, ctxCancelled, mainPc, snapshot, taskPc,
                    fetched, fetchErr, idx, mu, result, errCh, errClosed,
                    errs, ret, budgetVars, records, detectVars, allocVars >>

\* second half: it stores what it read with the entry merged in
TaskMerge(p) ==
    /\ taskPc[p] = "merge"
    /\ loaded[p] # << >>
    /\ result' = MergeEntry(loaded[p][1], fetched[p][idx[p]])
    /\ idx' = [idx EXCEPT ![p] = @ + 1]
    /\ loaded' = [loaded EXCEPT ![p] = << >>]
    /\ UNCHANGED << providers, ctxCancelled, mainPc, snapshot, taskPc,
                    fetched, fetchErr, mu, errCh, errClosed, errs, ret,
                    budgetVars, records, detectVars, allocVars >>

\* end of the loop: deferred mu.Unlock() and wg.Done()
TaskUnlock(p) ==
    /\ taskPc[p] = "merge"
    /\ idx[p] > Len(fetched[p])
    /\ mu' = NoTask
    /\ taskPc' = [taskPc EXCEPT ![p] = "done"]
    /\ UNCHANGED << providers, ctxCancelled, mainPc, snapshot, fetched,
                    fetchErr, idx, result, errCh, errClosed, errs, ret,
                    loaded, budgetVars, records, detectVars, allocVars >>

\* mutant: Aggregate does not wait for the goroutines
WgDone_NoBarrier == TRUE

\* wg.Wait() returns once every goroutine has called wg.Done
WgDone == \A p \in snapshot : taskPc[p] = "done"

\* wg.Wait(); close(errCh)
MainWaitClose ==
    /\ mainPc = "wait"
    /\ WgDone
    /\ errClosed' = TRUE
    /\ mainPc' = "collect"
    /\ UNCHANGED << providers, ctxCancelled, snapshot, taskPc, fetched,
                    fetchErr, idx, mu, result, errCh, errs, ret,
                    loaded, budgetVars, records, detectVars, allocVars >>

\* for err := range errCh { errs = append(errs, err) }
MainCollect ==
    /\ mainPc = "collect"
    /\ errCh # << >>
    /\ errs' = Append(errs, Head(errCh))
    /\ errCh' = Tail(errCh)
    /\ UNCHANGED << providers, ctxCancelled, mainPc, snapshot, taskPc,
                    fetched, fetchErr, idx, mu, result, errClosed, ret,
                    loaded, budgetVars, records, detectVars, allocVars >>

\* mutant: any provider error fails the call
AllFailed_AnyError(es, provs) == Len(es) > 0

\* len(errs) > 0 && len(errs) == len(providers)
AllFailed(es, provs) == Len(es) > 0 /\ Len(es) = Cardinality(provs)

\* the range loop ends on the closed, drained channel; Aggregate returns
MainReturn ==
    /\ mainPc = "collect"
    /\ errCh = << >>
    /\ errClosed
    /\ ret' = IF AllFailed(errs, snapshot)
              THEN [kind |-> "error", errs |-> errs]
              ELSE [kind |-> "result", errs |-> << >>]
    /\ mainPc' = "done"
    /\ UNCHANGED << providers, ctxCancelled, snapshot, taskPc, fetched,
                    fetchErr, idx, mu, result, errCh, errClosed, errs,
                    loaded, budgetVars, records, detectVars, allocVars >>

\* CheckBudgets(result), called on the result Aggregate returned
CheckBudgetsCall ==
    /\ mainPc = "done"
    /\ ret.kind = "result"
    /\ ~checked
    /\ spent' = [i \in 1..Len(config) |-> CurrentSpend(config[i], result)]
    /\ alerts' = CheckBudgets(config, result)
    /\ checked' = TRUE
    /\ UNCHANGED << providers, ctxCancelled, mainPc, snapshot, taskPc,
                    fetched, fetchErr, idx, mu, result, errCh, errClosed,
                    errs, ret, config, loaded, records, detectVars, allocVars >>

Next ==
    \/ \E name \in ProviderNames : RegisterProvider(name)
    \/ Cancel
    \/ AggregateStart
    \/ \E p \in ProviderNames : TaskFetch(p)
    \/ \E p \in ProviderNames : TaskSendErr(p)
    \/ \E p \in ProviderNames : TaskLock(p)
    \/ \E p \in ProviderNames : TaskLoad(p)
    \/ \E p \in ProviderNames : TaskMerge(p)
    \/ \E p \in ProviderNames : TaskUnlock(p)
    \/ MainWaitClose
    \/ MainCollect
    \/ MainReturn
    \/ CheckBudgetsCall

Spec == Init /\ [][Next]_vars

\* Goroutine steps and the steps of Aggregate itself.  The Go scheduler runs
\* every runnable goroutine, and a provider's GetCosts call returns.
Progress ==
    \/ \E p \in ProviderNames :
          TaskFetch(p) \/ TaskSendErr(p) \/ TaskLock(p) \/ TaskLoad(p)
          \/ TaskMerge(p) \/ TaskUnlock(p)
    \/ MainWaitClose
    \/ MainCollect
    \/ MainReturn

\* Aggregate never reads a.config, so the runs checked for termination are
\* those of an aggregator configured without budgets.
LiveInit == Init /\ config = << >>

LiveSpec == LiveInit /\ [][Next]_vars /\ WF_vars(Progress)

\* ============================================== running the two detectors
MaxRecords == 3

\* cost records of two accounts and two clouds: in the baseline window
\* (more than BaselineDays before Now), in the recent window (the last
\* RecentDays days), in between, and on each of the two cutoff days
RecordCatalogue ==
    << Record("aws", "acct1", "compute", Now - 45, 110, NoTags),
       Record("aws", "acct1", "compute", Now - 40, 90, NoTags),
       Record("aws", "acct2", "compute", Now - 40, 300, NoTags),
       Record("aws", "acct1", "compute", Now - 3, 135, NoTags),
       Record("aws", "acct1", "compute", Now - 2, 60, NoTags),
       Record("aws", "acct2", "compute", Now - 3, 115, NoTags),
       Record("gcp", "acct1", "compute", Now - 3, 135, NoTags),
       Record("aws", "acct1", "compute", Now - 20, 500, NoTags),
       Record("aws", "acct1", "compute", Now - 30, 110, NoTags),
       Record("aws", "acct1", "compute", Now - 7, 135, NoTags) >>

\* seven daily costs of one service: six in the baseline window and last,
\* yesterday's
DailySeries(last) ==
    [i \in 1..7 |-> Record("aws", "acct1", "compute", Now - 41 + (IF i = 7 THEN 40 ELSE i),
                           (IF i = 7 THEN last ELSE IF i % 2 = 1 THEN 90 ELSE 110), NoTags)]

\* one partition with a varying baseline and two recent records, the
\* earlier one less severe (z = 3.5) than the later one (z = -4)
SeverityMix ==
    << Record("aws", "acct1", "compute", Now - 45, 110, NoTags),
       Record("aws", "acct1", "compute", Now - 40, 90, NoTags),
       Record("aws", "acct1", "compute", Now - 3, 135, NoTags),
       Record("aws", "acct1", "compute", Now - 2, 60, NoTags) >>

\* two partitions with the same baseline, whose recent records differ in
\* severity
TwoPartitions ==
    << Record("aws", "acct1", "compute", Now - 45, 110, NoTags),
       Record("gcp", "acct1", "compute", Now - 45, 110, NoTags),
       Record("aws", "acct1", "compute", Now - 40, 90, NoTags),
       Record("gcp", "acct1", "compute", Now - 40, 90, NoTags),
       Record("aws", "acct1", "compute", Now - 3, 135, NoTags),
       Record("gcp", "acct1", "compute", Now - 2, 60, NoTags) >>

\* the slices handed to the detectors: up to MaxRecords distinct catalogue
\* records in any order, two week-long series and the two lists above
DetectInputs ==
    { [i \in 1..Len(q) |-> RecordCatalogue[q[i]]] :
         q \in { x \in SeqsOver(1..Len(RecordCatalogue), MaxRecords) : NoRepeat(x) } }
    \cup { DailySeries(200), DailySeries(20), SeverityMix, TwoPartitions }

DetectorConfigs ==
    [Sensitivity : {"low", "medium", "high", ""}, BaselineDays : {30},
     MinSpend : {-50, 0, 100, 150}]

AnomalyConfigs ==
    [Enabled : {TRUE}, DeviationThreshold : {25}, MinimumCostThreshold : {0}]

\* the CostEntry of a cost record
ToEntry(r) ==
    [Provider |-> r.Cloud, AccountID |-> r.Account, Service |-> r.Service,
     Date |-> r.Date, Cost |-> r.Cost]

EntriesOf(rs) == [i \in 1..Len(rs) |-> ToEntry(rs[i])]

SeriesKeys(entries) == { SeriesKey(entries[i]) : i \in 1..Len(entries) }

DetectInit ==
    /\ config = << >>
    /\ AggregatorInit
    /\ records \in DetectInputs
    /\ detCfg \in DetectorConfigs
    /\ anomalyCfg \in AnomalyConfigs
    /\ detPc = "idle"
    /\ anomalies = << >>
    /\ aggPc = "idle"
    /\ aggAnomalies = << >>
    /\ AllocatorIdle

\* detector.Detect(records); the range over byService visits the partitions
\* in an order the runtime picks
DetectCall ==
    /\ detPc = "idle"
    /\ \E order \in IterationOrders(PartitionKeys(records)) :
          anomalies' = Detect(records, detCfg, order)
    /\ records' = CallerSliceAfterDetect(records)
    /\ detPc' = "done"
    /\ UNCHANGED << aggregateVars, budgetVars, detCfg, anomalyCfg,
                    aggPc, aggAnomalies, allocVars >>

\* a.DetectAnomalies(result) on a result holding the records as entries
DetectAnomaliesCall ==
    /\ aggPc = "idle"
    /\ \E order \in IterationOrders(SeriesKeys(EntriesOf(records))) :
          aggAnomalies' = DetectAnomalies(EntriesOf(records), anomalyCfg, order)
    /\ aggPc' = "done"
    /\ UNCHANGED << aggregateVars, budgetVars, records, detCfg, anomalyCfg,
                    detPc, anomalies, allocVars >>

DetectNext ==
    \/ DetectCall
    \/ DetectAnomaliesCall

SpecDetect == DetectInit /\ [][DetectNext]_vars

\* ================================================= running the allocator
\* tagged, untagged, empty-valued and doubly tagged cost records
TaggedCatalogue ==
    << Record("aws", "acct1", "compute", Now - 3, 100, ("cost_center" :> "Eng")),
       Record("aws", "acct1", "storage", Now - 3, 50, ("cost_center" :> "Eng")),
       Record("gcp", "acct1", "compute", Now - 3, 30, NoTags),
       Record("aws", "acct1", "compute", Now - 2, 60, ("cost_center" :> "" @@ "team" :> "A")),
       Record("gcp", "acct1", "storage", Now - 2, 40, ("cost_center" :> "B" @@ "team" :> "A")),
       Record("aws", "acct1", "storage", Now - 2, 100, ("team" :> "")) >>

AllocInputs ==
    { [i \in 1..Len(q) |-> TaggedCatalogue[q[i]]] :
         q \in { x \in SeqsOver(1..Len(TaggedCatalogue), MaxRecords) : NoRepeat(x) } }

Rule(cc, pct) == [CostCenter |-> cc, Percentage |-> pct]

\* no rules, one rule, rules summing to 100, rules summing to more than 100
RuleSets ==
    { << >>, << Rule("Ops", 50) >>, << Rule("Ops", 60), Rule("Eng", 40) >>,
      << Rule("Ops", 60), Rule("B", 60) >> }

AllocatorConfigs ==
    [PrimaryTag : {"cost_center"}, FallbackTag : {"team"},
     UntaggedPool : {"", "SHARED", "Eng"}, SharedCostSplit : RuleSets]

ReportMonth == "2026-01"

AllocInit ==
    /\ config = << >>
    /\ AggregatorInit
    /\ DetectorIdle
    /\ records \in AllocInputs
    /\ allocCfg \in AllocatorConfigs
    /\ allocPc = "idle"
    /\ allocations = EmptyMap
    /\ report = NoReport

\* allocator.Allocate(records)
AllocateCall ==
    /\ allocPc = "idle"
    /\ allocations' = Allocate(records, allocCfg)
    /\ records' = CallerSliceAfterAllocate(records)
    /\ allocPc' = "allocated"
    /\ UNCHANGED << aggregateVars, budgetVars, detectVars, allocCfg, report >>

\* chargeback.GenerateReport(allocations, month); the range over the map
\* visits the allocations in an order the runtime picks
GenerateReportCall ==
    /\ allocPc = "allocated"
    /\ \E order \in IterationOrders(DOMAIN allocations) :
          report' = GenerateReport(allocations, ReportMonth, order)
    /\ allocPc' = "reported"
    /\ UNCHANGED << aggregateVars, budgetVars, records, detectVars, allocCfg,
                    allocations >>

AllocNext ==
    \/ AllocateCall
    \/ GenerateReportCall

SpecAlloc == AllocInit /\ [][AllocNext]_vars

\* ============================= one caller running detector and allocator
\* runAnomaly and runChargeback with their configurations, on one slice
ReadOnlyInit ==
    /\ config = << >>
    /\ AggregatorInit
    /\ records \in DetectInputs \cup AllocInputs
    /\ DetectorIdle
    /\ AllocatorIdle

ReadOnlyNext ==
    \/ DetectCall
    \/ AllocateCall

SpecReadOnly == ReadOnlyInit /\ [][ReadOnlyNext]_vars

\* ================================= DetectAnomalies on an Aggregate result
\* Two AWS providers that bill the same account and service, and one that
\* bills another account: six daily costs from the first, the seventh day's
\* cost from the second.
DailyResponses(name) ==
    CASE name = "aws"  ->
             { [i \in 1..6 |-> Entry("aws", "acct1", "compute", "us",
                                     (i - 1) * HoursPerDay, 100)] }
      [] name = "aws2" ->
             { << Entry("aws", "acct1", "compute", "us", 6 * HoursPerDay, 200) >>,
               << Entry("aws", "acct3", "compute", "us", 6 * HoursPerDay, 200) >> }
      [] OTHER -> { << >> }

TaskFetchDaily(p) == TaskFetchFrom(p, DailyResponses(p))

\* a.DetectAnomalies(result) on the result Aggregate returned
AggregateDetectCall ==
    /\ mainPc = "done"
    /\ ret.kind = "result"
    /\ aggPc = "idle"
    /\ \E order \in IterationOrders(SeriesKeys(result.Entries)) :
          aggAnomalies' = DetectAnomalies(result.Entries, anomalyCfg, order)
    /\ aggPc' = "done"
    /\ UNCHANGED << aggregateVars, budgetVars, records, detCfg, anomalyCfg,
                    detPc, anomalies, allocVars >>

\* both AWS providers are registered and anomaly detection is enabled
AnomalyRunInit ==
    /\ config = << >>
    /\ checked = FALSE /\ spent = << >> /\ alerts = << >>
    /\ providers = {"aws", "aws2"}
    /\ ctxCancelled = FALSE
    /\ mainPc = "idle"
    /\ snapshot = {}
    /\ taskPc = [p \in ProviderNames |-> "unborn"]
    /\ fetched = [p \in ProviderNames |-> << >>]
    /\ fetchErr = [p \in ProviderNames |-> "nil"]
    /\ idx = [p \in ProviderNames |-> 0]
    /\ loaded = [p \in ProviderNames |-> << >>]
    /\ mu = NoTask
    /\ result = EmptyResult
    /\ errCh = << >>
    /\ errClosed = FALSE
    /\ errs = << >>
    /\ ret = NotReturned
    /\ records = << >>
    /\ detCfg = [Sensitivity |-> "medium", BaselineDays |-> 30, MinSpend |-> 100]
    /\ anomalyCfg \in AnomalyConfigs
    /\ detPc = "idle"
    /\ anomalies = << >>
    /\ aggPc = "idle"
    /\ aggAnomalies = << >>
    /\ AllocatorIdle

AnomalyRunNext ==
    \/ AggregateStart
    \/ \E p \in ProviderNames : TaskFetchDaily(p)
    \/ \E p \in ProviderNames : TaskSendErr(p)
    \/ \E p \in ProviderNames : TaskLock(p)
    \/ \E p \in ProviderNames : TaskLoad(p)
    \/ \E p \in ProviderNames : TaskMerge(p)
    \/ \E p \in ProviderNames : TaskUnlock(p)
    \/ MainWaitClose
    \/ MainCollect
    \/ MainReturn
    \/ AggregateDetectCall

SpecAnomalyRun == AnomalyRunInit /\ [][AnomalyRunNext]_vars

\* ======================================================== claim helpers
Returned == mainPc = "done"

\* providers whose GetCosts returned entries and a nil error
Succeeded ==
    { p \in snapshot : fetchErr[p] = "nil" /\ taskPc[p] \in {"lock", "merge", "done"} }

\* providers whose GetCosts returned an error
Failed == { p \in snapshot : fetchErr[p] # "nil" }

Range(q) == { q[i] : i \in 1..Len(q) }

RECURSIVE SumFetched(_, _)
\* total cost of the entries the providers in S returned
SumFetched(S, f) ==
    IF S = {} THEN 0
    ELSE LET p == CHOOSE x \in S : TRUE
         IN SumCost(f[p]) + SumFetched(S \ {p}, f)

\* the Provider labels on the entries the providers in S returned
LabelsOf(S) == UNION { { fetched[p][i].Provider : i \in 1..Len(fetched[p]) } : p \in S }

RECURSIVE MergeList(_, _)
\* the merge loop run over a whole entry list
MergeList(res, es) ==
    IF es = << >> THEN res ELSE MergeList(MergeEntry(res, Head(es)), Tail(es))

RECURSIVE MergeInFixedOrder(_, _, _)
\* the result of merging the lists of the providers in S one after another,
\* in one fixed order that depends on S only
MergeInFixedOrder(res, S, f) ==
    IF S = {} THEN res
    ELSE LET p == CHOOSE x \in S : TRUE
         IN MergeInFixedOrder(MergeList(res, f[p]), S \ {p}, f)

\* the aggregate statistics of a result: everything but the entry list
Stats(res) == [res EXCEPT !.Entries = << >>]

\* ----------------------------------------------------------------- C1
\* C1 (as claimed): when at least one provider succeeds, Aggregate returns
\* a result and no error, the keys of ByProvider are exactly the succeeding
\* providers, and TotalCost is the sum of the costs they returned.
C1_KeysAreSucceedingProviders ==
    (Returned /\ Succeeded # {}) =>
        /\ ret.kind = "result"
        /\ DOMAIN result.ByProvider = Succeeded
        /\ result.TotalCost = SumFetched(Succeeded, fetched)

\* C1 (amended): when at least one provider succeeds, Aggregate returns a
\* result and no error, the keys of ByProvider are exactly the Provider
\* labels of the entries the succeeding providers returned, and TotalCost is
\* the sum of the costs of those entries.
C1_PartialResult ==
    (Returned /\ Succeeded # {}) =>
        /\ ret.kind = "result"
        /\ DOMAIN result.ByProvider = LabelsOf(Succeeded)
        /\ result.TotalCost = SumFetched(Succeeded, fetched)

\* a partial failure: one provider failed, another returned entries
C1_Witness ==
    /\ Returned
    /\ Failed # {}
    /\ \E p \in Succeeded : fetched[p] # << >>
    /\ result.TotalCost > 0

\* ----------------------------------------------------------------- C2
\* C2: when at least one provider is registered and every fetch failed,
\* Aggregate returns an error carrying exactly one error per provider, each
\* naming its provider; it returns an error in no other case.
C2_AllFailedError ==
    Returned =>
        /\ (snapshot # {} /\ Failed = snapshot) =>
              /\ ret.kind = "error"
              /\ Len(ret.errs) = Cardinality(snapshot)
              /\ Range(ret.errs) = snapshot
        /\ ret.kind = "error" => Succeeded = {}

\* two providers, both failed
C2_Witness ==
    /\ Returned
    /\ ret.kind = "error"
    /\ Cardinality(snapshot) >= 2
    /\ Failed = snapshot

\* ----------------------------------------------------------------- C3
\* C3: in every result Aggregate returns, each of the five breakdown maps
\* sums to TotalCost, and TotalCost is the sum of Cost over Entries.
C3_SumInvariant ==
    (Returned /\ ret.kind = "result") =>
        /\ SumMap(result.ByProvider) = result.TotalCost
        /\ SumMap(result.ByService) = result.TotalCost
        /\ SumMap(result.ByAccount) = result.TotalCost
        /\ SumMap(result.ByRegion) = result.TotalCost
        /\ SumMap(result.ByDate) = result.TotalCost
        /\ SumCost(result.Entries) = result.TotalCost

\* a result holding entries of two providers, with two keys in every map
C3_Witness ==
    /\ Returned
    /\ ret.kind = "result"
    /\ Cardinality(Succeeded) >= 2
    /\ Len(result.Entries) >= 3
    /\ Cardinality(DOMAIN result.ByRegion) >= 2
    /\ Cardinality(DOMAIN result.ByDate) >= 2
    /\ Cardinality(DOMAIN result.ByDate) < Len(result.Entries)

\* ----------------------------------------------------------------- C4
\* C4: for given fetch outcomes, whatever the interleaving of the fetch
\* goroutines, Aggregate ends with the TotalCost and the five breakdown maps
\* that merging the successful lists in one fixed order gives, and returns an
\* error exactly when providers were registered and none succeeded.
C4_OrderIndependent ==
    Returned =>
        /\ Stats(result) = Stats(MergeInFixedOrder(EmptyResult, Succeeded, fetched))
        /\ ret.kind = "error" <=> (snapshot # {} /\ Succeeded = {})

\* two providers returned entries and were merged in the other order
C4_Witness ==
    /\ Returned
    /\ \A p \in snapshot : fetched[p] # << >>
    /\ Cardinality(snapshot) >= 2
    /\ result.Entries # MergeInFixedOrder(EmptyResult, Succeeded, fetched).Entries

\* ----------------------------------------------------------------- C5
\* the goroutine that takes a step of its merge loop
Merging(p) == idx'[p] # idx[p] /\ taskPc[p] = "merge"

C6_FailuresReported ==
    (Returned /\ ret.kind = "result") => Failed \subseteq Range(ret.errs)

\* ----------------------------------------------------------------- C7
\* C7: once ctx is cancelled while Aggregate waits for its goroutines,
\* Aggregate eventually returns; when it returns every goroutine it started
\* has finished, every aborted fetch is among the collected errors, and the
\* call fails exactly when no provider succeeded (aborted fetches counting as
\* failures), the result otherwise holding the successful providers' costs.
C7_Cancellation ==
    /\ [](Returned =>
            /\ \A p \in snapshot : taskPc[p] = "done"
            /\ \A p \in snapshot : fetchErr[p] = "aborted" => p \in Range(errs)
            /\ ret.kind = "error" <=> (snapshot # {} /\ Failed = snapshot)
            /\ result.TotalCost = SumFetched(snapshot \ Failed, fetched))
    /\ (ctxCancelled /\ mainPc = "wait") ~> Returned

\* a cancelled run that returned a partial result: one fetch aborted,
\* another had delivered entries
C7_Witness ==
    /\ Returned
    /\ ctxCancelled
    /\ \E p \in snapshot : fetchErr[p] = "aborted"
    /\ ret.kind = "result"
    /\ result.Entries # << >>

\* ----------------------------------------------------------------- C8
\* the alerts raised for the budget b
AlertsOf(b) == { i \in 1..Len(alerts) : alerts[i].BudgetName = b.Name }

\* the positions of b's AlertAt list whose entry is <= the percent used
MetAt(b, res) ==
    { j \in 1..Len(b.AlertAt) :
        PercentGeq(PercentUsed(CurrentSpend(b, res), b.MonthlyLimit), b.AlertAt[j]) }

\* C8: every budget gets at most one alert; it gets one exactly when some
\* entry of its AlertAt list is <= the percent used, and that alert is for
\* the first such entry of the list.
C8_FirstThresholdOnly ==
    checked =>
        \A k \in 1..Len(config) :
            LET b == config[k]
                met == MetAt(b, result)
            IN /\ Cardinality(AlertsOf(b)) = IF met = {} THEN 0 ELSE 1
               /\ \A i \in AlertsOf(b) :
                     \E j \in met : /\ alerts[i].AlertAt = b.AlertAt[j]
                                    /\ \A j2 \in met : j <= j2

\* limit 1000, spend 920, list 50, 75, 90: one alert, for 50
C8_Witness ==
    /\ checked
    /\ config = << Budget("total", "all", "", 1000, << 50, 75, 90 >>) >>
    /\ result.TotalCost = 920
    /\ Len(alerts) = 1
    /\ alerts[1].AlertAt = 50
    /\ alerts[1].CurrentSpend = 920

\* ----------------------------------------------------------------- C9
\* the current spend of a budget as the claim defines it
ClaimedSpend(b, res) ==
    IF b.Scope # "" THEN MapGet(res.ByAccount, b.Scope)
    ELSE IF b.Provider \notin {"", "all"} THEN MapGet(res.ByProvider, b.Provider)
    ELSE res.TotalCost

\* C9 (as claimed): the current spend of a budget is ByAccount[Scope] when
\* Scope is set, else ByProvider[Provider] for a specific provider, else
\* (Provider empty or "all") TotalCost.
C9_CurrentSpendRule ==
    checked => \A k \in 1..Len(config) : spent[k] = ClaimedSpend(config[k], result)

\* ---------------------------------------------------------------- C10
\* the severity the claim gives to a percent used
SeverityOfPercent(pct) ==
    IF PercentGeq(pct, 90) THEN "high"
    ELSE IF PercentGeq(pct, 75) THEN "medium"
    ELSE IF PercentGeq(pct, 50) THEN "low"
    ELSE "info"

\* C10 (as claimed): the severity of every alert is the tier of its
\* PercentUsed: high from 90, medium from 75, low from 50, info below.
C10_SeverityMatchesPercentUsed ==
    checked =>
        \A i \in 1..Len(alerts) :
            alerts[i].Severity = SeverityOfPercent(alerts[i].PercentUsed)

\* ============================================ claims about the detectors
RECURSIVE CostSum(_, _)
\* the sum of Cost over the records at the positions J
CostSum(rs, J) ==
    IF J = {} THEN 0
    ELSE LET j == CHOOSE x \in J : TRUE IN rs[j].Cost + CostSum(rs, J \ {j})

RECURSIVE CostSqSum(_, _)
CostSqSum(rs, J) ==
    IF J = {} THEN 0
    ELSE LET j == CHOOSE x \in J : TRUE
         IN rs[j].Cost * rs[j].Cost + CostSqSum(rs, J \ {j})

\* the partition Detect puts a record in: its cloud and its service
SamePartition(r, q) == q.Cloud = r.Cloud /\ q.Service = r.Service

\* positions of the baseline-window records of r's partition
BaselineOf(r) ==
    { j \in 1..Len(records) :
         /\ SamePartition(r, records[j])
         /\ records[j].Date < Now - detCfg.BaselineDays }

\* n, the sum S and n^2 times the variance of the baseline of r's partition:
\* mean = S / n and stddev = sqrt(V) / n
BaseN(r) == Cardinality(BaselineOf(r))

BaseS(r) == CostSum(records, BaselineOf(r))

BaseV(r) == BaseN(r) * CostSqSum(records, BaselineOf(r)) - BaseS(r) * BaseS(r)

\* |(cost - mean) / stddev| >= num / den
ZAtLeast(r, cost, num, den) ==
    LET d == cost * BaseN(r) - BaseS(r)
    IN d * d * den * den >= num * num * BaseV(r)

IsRecent(r) == r.Date > Now - RecentDays

\* the partition of r is skipped: no baseline record, or mean < MinSpend
Skipped(r) == BaseN(r) = 0 \/ BaseS(r) < detCfg.MinSpend * BaseN(r)

\* the anomaly a reports the record r
Reports(a, r) ==
    /\ a.Date = r.Date /\ a.Cloud = r.Cloud /\ a.Account = r.Account
    /\ a.Service = r.Service /\ a.ActualCost = r.Cost

Flagged(r) == \E k \in 1..Len(anomalies) : Reports(anomalies[k], r)

\* ---------------------------------------------------------------- C11
\* C11: Detect flags a recent-window record of a partition that is not
\* skipped exactly when the baseline's standard deviation is not zero and
\* |(cost - mean) / stddev| is at least the threshold of the sensitivity:
\* 3.0 for low, 2.0 for medium, 1.5 for high.  With a constant baseline no
\* record is flagged.
C11_ThresholdRule ==
    detPc = "done" =>
        \A i \in 1..Len(records) :
            LET r == records[i]
                s == detCfg.Sensitivity
            IN (IsRecent(r) /\ ~Skipped(r) /\ s \in {"low", "medium", "high"}) =>
                  (Flagged(r) <=>
                      /\ BaseV(r) # 0
                      /\ \/ s = "low" /\ ZAtLeast(r, r.Cost, 3, 1)
                         \/ s = "medium" /\ ZAtLeast(r, r.Cost, 2, 1)
                         \/ s = "high" /\ ZAtLeast(r, r.Cost, 3, 2))

\* a record whose z-score is exactly 1.5 is flagged under high sensitivity
C11_Witness ==
    /\ detPc = "done"
    /\ detCfg.Sensitivity = "high"
    /\ \E i \in 1..Len(records) :
          LET r == records[i]
              d == r.Cost * BaseN(r) - BaseS(r)
          IN /\ IsRecent(r) /\ ~Skipped(r)
             /\ BaseV(r) # 0
             /\ 4 * d * d = 9 * BaseV(r)
             /\ Flagged(r)

\* ---------------------------------------------------------------- C12
\* the tier the claim gives to a z-score
ClaimedTier(r, cost) ==
    IF ZAtLeast(r, cost, 4, 1) THEN "critical"
    ELSE IF ZAtLeast(r, cost, 3, 1) THEN "high"
    ELSE IF ZAtLeast(r, cost, 2, 1) THEN "medium"
    ELSE "low"

\* C12: every anomaly has severity critical for |z| >= 4, high for
\* |z| >= 3, medium for |z| >= 2 and low below, where z is its Deviation,
\* the z-score of the record; its ExpectedCost is the baseline mean and its
\* PercentChange is (actual - mean) / mean * 100.
C12_AnomalyFields ==
    detPc = "done" =>
        \A k \in 1..Len(anomalies) :
            LET a == anomalies[k]
                d == a.ActualCost * BaseN(a) - BaseS(a)
            IN /\ BaseN(a) > 0
               /\ a.Deviation.znum = d /\ a.Deviation.varnum = BaseV(a)
               /\ a.Severity = ClaimedTier(a, a.ActualCost)
               /\ a.ExpectedCost.num * BaseN(a) = BaseS(a) * a.ExpectedCost.den
               /\ a.PercentChange.num * BaseS(a) = d * 100 * a.PercentChange.den

\* mean 100, stddev 10, cost 135, medium sensitivity: z = 3.5 (z^2 = 49/4),
\* severity high, 35 percent
C12_Witness ==
    /\ detPc = "done"
    /\ detCfg.Sensitivity = "medium"
    /\ \E k \in 1..Len(anomalies) :
          LET a == anomalies[k]
          IN /\ a.ActualCost = 135
             /\ a.ExpectedCost.num = 100 * a.ExpectedCost.den
             /\ a.Deviation.varnum = 100 * a.ExpectedCost.den * a.ExpectedCost.den
             /\ a.Deviation.znum > 0
             /\ 4 * a.Deviation.znum * a.Deviation.znum = 49 * a.Deviation.varnum
             /\ a.Severity = "high"
             /\ a.PercentChange.num = 35 * a.PercentChange.den

\* ---------------------------------------------------------------- C13
\* positions of the baseline-window records with r's cloud, account and service
TripleBaselineOf(r) ==
    { j \in 1..Len(records) :
         /\ records[j].Cloud = r.Cloud /\ records[j].Account = r.Account
         /\ records[j].Service = r.Service
         /\ records[j].Date < Now - detCfg.BaselineDays }

\* C13 (as claimed): the baseline a record is scored against is computed
\* only from the records with the same cloud, the same account and the same
\* service: the ExpectedCost of every anomaly is the mean of the baseline
\* window of its (cloud, account, service).
C13_PartitionByTriple ==
    detPc = "done" =>
        \A k \in 1..Len(anomalies) :
            LET a == anomalies[k]
                J == TripleBaselineOf(a)
            IN /\ J # {}
               /\ a.ExpectedCost.num * Cardinality(J)
                     = CostSum(records, J) * a.ExpectedCost.den

\* ---------------------------------------------------------------- C14
\* C14: Detect reports no anomaly for a record of a partition whose
\* baseline window is empty or whose baseline mean is below MinSpend,
\* whatever MinSpend is; on an empty input, or an input with no record in
\* the baseline window, it returns the empty list.
C14_SkippedPartitions ==
    detPc = "done" =>
        /\ \A i \in 1..Len(records) : Skipped(records[i]) => ~Flagged(records[i])
        /\ (\A i \in 1..Len(records) : BaseN(records[i]) = 0) => anomalies = << >>

\* a recent record with no baseline, under a negative MinSpend
C14_Witness ==
    /\ detPc = "done"
    /\ detCfg.MinSpend < 0
    /\ \E i \in 1..Len(records) : IsRecent(records[i]) /\ BaseN(records[i]) = 0

\* ---------------------------------------------------------------- C15
\* the (partition, cost) pairs the z-score detector reported
DetectorPairs ==
    { << anomalies[k].Cloud \o ":" \o anomalies[k].Account \o ":" \o anomalies[k].Service,
         anomalies[k].ActualCost >> : k \in 1..Len(anomalies) }

\* the (partition, cost) pairs DetectAnomalies reported
AggregatorPairs ==
    { << aggAnomalies[k].Service, aggAnomalies[k].ActualCost >> :
         k \in 1..Len(aggAnomalies) }

\* C15 (as claimed): DetectAnomalies reports, on the same records, the
\* (partition, record) pairs that the z-score detector reports.
C15_DelegatesToDetector ==
    (detPc = "done" /\ aggPc = "done") => AggregatorPairs = DetectorPairs

\* ============================================ claims about the allocator
Allocated == allocPc # "idle"

\* the cost center the claims give a record ("" for untagged)
ClaimedCenter(r) ==
    LET p == allocCfg.PrimaryTag
        f == allocCfg.FallbackTag
    IN IF p \in DOMAIN r.Tags /\ r.Tags[p] # "" THEN r.Tags[p]
       ELSE IF f \in DOMAIN r.Tags /\ r.Tags[f] # "" THEN r.Tags[f]
       ELSE ""

\* positions of the records of the center cc (of the untagged ones for "")
RecordsOf(cc) == { i \in 1..Len(records) : ClaimedCenter(records[i]) = cc }

TaggedCenters == { ClaimedCenter(records[i]) : i \in 1..Len(records) } \ {""}

\* the untagged pool
Pool == CostSum(records, RecordsOf(""))

\* ---------------------------------------------------------------- C16
\* C16: a record belongs to the center named by its primary tag when that
\* tag is present and not empty, else to the one named by its fallback tag
\* when that is present and not empty, else it is untagged and belongs to
\* no center.
C16_CostCenterOfRecord ==
    Allocated =>
        \A i \in 1..Len(records) :
            /\ ClaimedCenter(records[i]) # "" =>
                  /\ ClaimedCenter(records[i]) \in DOMAIN allocations
                  /\ records[i] \in Range(allocations[ClaimedCenter(records[i])].Records)
            /\ \A cc \in DOMAIN allocations :
                  records[i] \in Range(allocations[cc].Records)
                      => ClaimedCenter(records[i]) = cc

\* a record with an empty primary tag is assigned by its fallback tag
C16_Witness ==
    /\ Allocated
    /\ \E i \in 1..Len(records) :
          LET r == records[i]
          IN /\ allocCfg.PrimaryTag \in DOMAIN r.Tags
             /\ r.Tags[allocCfg.PrimaryTag] = ""
             /\ allocCfg.FallbackTag \in DOMAIN r.Tags
             /\ r.Tags[allocCfg.FallbackTag] \in DOMAIN allocations
             /\ r \in Range(allocations[r.Tags[allocCfg.FallbackTag]].Records)

\* ---------------------------------------------------------------- C17
\* C17: every Allocation that Allocate returns has
\* TotalCost = DirectCost + AllocatedCost.
C17_TotalIsDirectPlusAllocated ==
    Allocated =>
        \A cc \in DOMAIN allocations :
            LET t == allocations[cc].TotalCost
                d == allocations[cc].DirectCost
                a == allocations[cc].AllocatedCost
            IN t.num * d.den * a.den = (d.num * a.den + a.num * d.den) * t.den

\* a center with direct cost and a fractional share of the pool
C17_Witness ==
    /\ Allocated
    /\ \E cc \in DOMAIN allocations :
          /\ allocations[cc].DirectCost.num > 0
          /\ allocations[cc].AllocatedCost.num > 0
          /\ allocations[cc].AllocatedCost.den > 1

\* ---------------------------------------------------------------- C18
RECURSIVE SumAllocTotals(_)
\* the sum of TotalCost over the allocations
SumAllocTotals(allocs) ==
    IF DOMAIN allocs = {} THEN Q(0)
    ELSE LET k == CHOOSE x \in DOMAIN allocs : TRUE
         IN QAdd(allocs[k].TotalCost,
                 SumAllocTotals([x \in DOMAIN allocs \ {k} |-> allocs[x]]))

\* C18 (as claimed): the TotalCost of the Allocations sum to the sum of Cost
\* over the input records, and so does the TotalCost of the report.
C18_CostConserved ==
    /\ Allocated => SumAllocTotals(allocations) = Q(SumCost(records))
    /\ allocPc = "reported" => report.TotalCost = Q(SumCost(records))

\* ---------------------------------------------------------------- C19
\* the records whose cost the breakdown of cc counts: its own, and the
\* untagged ones when cc is the pool center
BrokenDown(cc) ==
    RecordsOf(cc) \cup (IF cc = allocCfg.UntaggedPool THEN RecordsOf("") ELSE {})

\* C19: without rules and with a pool name, the pool center (created when
\* there are untagged records) gets the whole untagged pool as AllocatedCost
\* and in its TotalCost, and the pool's per-cloud and per-service
\* breakdown; every other center keeps its direct cost only.  With rules the
\* pool name plays no part.
C19_PoolCenter ==
    /\ (Allocated /\ allocCfg.SharedCostSplit = << >> /\ allocCfg.UntaggedPool # "") =>
          /\ DOMAIN allocations = TaggedCenters \cup
                (IF RecordsOf("") # {} THEN {allocCfg.UntaggedPool} ELSE {})
          /\ \A cc \in DOMAIN allocations :
                LET a == allocations[cc]
                    direct == CostSum(records, RecordsOf(cc))
                    share == IF cc = allocCfg.UntaggedPool THEN Pool ELSE 0
                IN /\ a.DirectCost = Q(direct)
                   /\ a.AllocatedCost = Q(share)
                   /\ a.TotalCost = Q(direct + share)
                   /\ \A cl \in {"aws", "gcp"} :
                         MapGet(a.ByCloud, cl) = CostSum(records,
                             { i \in BrokenDown(cc) : records[i].Cloud = cl })
                   /\ \A sv \in {"compute", "storage"} :
                         MapGet(a.ByService, sv) = CostSum(records,
                             { i \in BrokenDown(cc) : records[i].Service = sv })
    /\ (Allocated /\ allocCfg.SharedCostSplit # << >>) =>
          /\ allocations = Allocate(records, [allocCfg EXCEPT !.UntaggedPool = ""])
          /\ (/\ allocCfg.UntaggedPool \notin TaggedCenters
              /\ \A k \in 1..Len(allocCfg.SharedCostSplit) :
                    allocCfg.SharedCostSplit[k].CostCenter # allocCfg.UntaggedPool)
                => allocCfg.UntaggedPool \notin DOMAIN allocations

\* Eng 100 + Eng 50 + untagged 30 with pool SHARED: Eng 150, SHARED 30
C19_Witness ==
    /\ Allocated
    /\ allocCfg.SharedCostSplit = << >> /\ allocCfg.UntaggedPool = "SHARED"
    /\ SumCost(records) = 180 /\ Pool = 30
    /\ DOMAIN allocations = {"Eng", "SHARED"}
    /\ allocations["Eng"].TotalCost = Q(150)
    /\ allocations["SHARED"].TotalCost = Q(30)
    /\ allocations["SHARED"].AllocatedCost = Q(30)

\* ---------------------------------------------------------------- C20
RECURSIVE RuleShare(_, _)
\* the sum of pool * percentage / 100 over the rules naming cc
RuleShare(rules, cc) ==
    IF rules = << >> THEN Q(0)
    ELSE QAdd(IF Head(rules).CostCenter = cc
              THEN QNorm(Pool * Head(rules).Percentage, 100) ELSE Q(0),
              RuleShare(Tail(rules), cc))

RECURSIVE PercentSum(_)
PercentSum(rules) ==
    IF rules = << >> THEN 0 ELSE Head(rules).Percentage + PercentSum(Tail(rules))

\* pool * (100 - sum of percentages) / 100 * direct(cc) / total direct
RemainderShare(cc) ==
    LET direct == CostSum(records, RecordsOf(cc))
        total == CostSum(records, { i \in 1..Len(records) : ClaimedCenter(records[i]) # "" })
    IN IF total = 0 THEN Q(0)
       ELSE QNorm(Pool * (100 - PercentSum(allocCfg.SharedCostSplit)) * direct,
                  100 * total)

\* C20 (as claimed): with rules and untagged records, every rule's center
\* exists and the AllocatedCost of every center is the sum of the fixed
\* shares pool * percentage / 100 of its rules plus its part, by direct
\* cost, of the remaining share pool * (100 - sum of percentages) / 100.
C20_RulesThenRemainder ==
    (Allocated /\ allocCfg.SharedCostSplit # << >> /\ RecordsOf("") # {}) =>
        /\ \A k \in 1..Len(allocCfg.SharedCostSplit) :
              allocCfg.SharedCostSplit[k].CostCenter \in DOMAIN allocations
        /\ \A cc \in DOMAIN allocations :
              allocations[cc].AllocatedCost
                 = QAdd(RuleShare(allocCfg.SharedCostSplit, cc), RemainderShare(cc))

\* ---------------------------------------------------------------- C21
RECURSIVE SumAllocated(_)
\* the sum of AllocatedCost over the allocations
SumAllocated(allocs) ==
    IF DOMAIN allocs = {} THEN Q(0)
    ELSE LET k == CHOOSE x \in DOMAIN allocs : TRUE
         IN QAdd(allocs[k].AllocatedCost,
                 SumAllocated([x \in DOMAIN allocs \ {k} |-> allocs[x]]))

\* the sum of the direct cost over all centers, as the claims define it
DirectTotal ==
    CostSum(records, { i \in 1..Len(records) : ClaimedCenter(records[i]) # "" })

\* no rules and no pool name, and some record is untagged
ProportionalCase ==
    /\ Allocated
    /\ allocCfg.SharedCostSplit = << >> /\ allocCfg.UntaggedPool = ""
    /\ RecordsOf("") # {}

\* every center c has AllocatedCost = pool * direct(c) / total direct
ProportionalShares ==
    /\ DOMAIN allocations = TaggedCenters
    /\ \A cc \in DOMAIN allocations :
          LET a == allocations[cc].AllocatedCost
          IN a.num * DirectTotal = Pool * CostSum(records, RecordsOf(cc)) * a.den

C22_OverAllocationRejected ==
    Allocated =>
        /\ PercentSum(allocCfg.SharedCostSplit) <= 100
        /\ RecordsOf("") # {} => ~QGt(SumAllocated(allocations), Q(Pool))

\* ---------------------------------------------------------------- C23
\* C23: the list Detect returns is sorted by non-increasing severity rank
\* (critical > high > medium > low), whatever the order in which the
\* partitions were visited.
C23_SortedBySeverity ==
    detPc = "done" =>
        \A i, j \in 1..Len(anomalies) :
            i < j => ~(anomalies[j].Severity = "critical" /\ anomalies[i].Severity # "critical")
                  /\ ~(anomalies[j].Severity = "high" /\ anomalies[i].Severity \in {"medium", "low"})
                  /\ ~(anomalies[j].Severity = "medium" /\ anomalies[i].Severity = "low")

\* a critical anomaly of a later record is listed before a high one of an
\* earlier record
C23_Witness ==
    /\ detPc = "done"
    /\ Len(anomalies) = 2
    /\ anomalies[1].Severity = "critical" /\ anomalies[2].Severity = "high"
    /\ anomalies[1].Date > anomalies[2].Date

BetweenCutoffs(r) ==
    r.Date >= Now - detCfg.BaselineDays /\ r.Date <= Now - RecentDays

\* C25: the baseline of a partition is made of exactly its records dated
\* strictly before now - BaselineDays, and exactly the records dated
\* strictly after now - 7 days are scored; with BaselineDays >= 7 no record
\* is in both windows and a record between the cutoffs is in neither.
C25_Windows ==
    detPc = "done" =>
        /\ \A k \in 1..Len(anomalies) :
              LET a == anomalies[k]
              IN /\ a.Date > Now - RecentDays
                 /\ a.ExpectedCost.num * BaseN(a) = BaseS(a) * a.ExpectedCost.den
                 /\ a.Deviation.varnum = BaseV(a) /\ BaseV(a) # 0
        /\ \A i \in 1..Len(records) :
              LET r == records[i]
              IN /\ (r.Date > Now - RecentDays /\ ~Skipped(r) /\ BaseV(r) # 0
                        /\ ZAtLeast(r, r.Cost, 3, 1)) => Flagged(r)
                 /\ detCfg.BaselineDays >= RecentDays =>
                       /\ ~(r.Date < Now - detCfg.BaselineDays /\ r.Date > Now - RecentDays)
                       /\ BetweenCutoffs(r) => ~Flagged(r)

\* a record dated exactly seven days ago, 3.5 standard deviations above
\* the mean, is not reported
C25_Witness ==
    /\ detPc = "done"
    /\ \E i \in 1..Len(records) :
          LET r == records[i]
          IN /\ r.Date = Now - RecentDays
             /\ ~Skipped(r) /\ BaseV(r) # 0 /\ ZAtLeast(r, r.Cost, 3, 1)
             /\ ~Flagged(r)

\* ---------------------------------------------------------------- C30
\* C30: under a Sensitivity that is not low, medium or high the threshold
\* is 0: every recent record of a partition whose baseline mean is at least
\* MinSpend and whose standard deviation is not zero is reported, whatever
\* its cost.
C30_UnknownSensitivity ==
    (detPc = "done" /\ detCfg.Sensitivity \notin {"low", "medium", "high"}) =>
        \A i \in 1..Len(records) :
            LET r == records[i]
            IN (IsRecent(r) /\ BaseS(r) >= detCfg.MinSpend * BaseN(r) /\ BaseV(r) # 0)
                  => Flagged(r)

\* under the empty sensitivity a record less than 1.5 standard deviations
\* from the mean is reported
C30_Witness ==
    /\ detPc = "done"
    /\ detCfg.Sensitivity = ""
    /\ \E i \in 1..Len(records) :
          /\ IsRecent(records[i]) /\ BaseV(records[i]) # 0
          /\ ~ZAtLeast(records[i], records[i].Cost, 3, 2)
          /\ Flagged(records[i])

\* ---------------------------------------------------------------- C26
\* the centers the rules name
RuleCenters ==
    { allocCfg.SharedCostSplit[k].CostCenter : k \in 1..Len(allocCfg.SharedCostSplit) }

\* C26: when no center has direct cost the proportional distribution
\* changes nothing.  On untagged records only, without rules and without a
\* pool name Allocate returns an empty map, and with rules summing below 100
\* the centers are those of the rules, each holding its fixed shares only.
C26_NoDirectCostDropped ==
    (Allocated /\ RecordsOf("") # {} /\ TaggedCenters = {}) =>
        /\ (allocCfg.SharedCostSplit = << >> /\ allocCfg.UntaggedPool = "")
              => DOMAIN allocations = {}
        /\ (allocCfg.SharedCostSplit # << >> /\ PercentSum(allocCfg.SharedCostSplit) < 100)
              => /\ DOMAIN allocations = RuleCenters
                 /\ \A cc \in DOMAIN allocations :
                       /\ allocations[cc].DirectCost = Q(0)
                       /\ allocations[cc].AllocatedCost = RuleShare(allocCfg.SharedCostSplit, cc)
                       /\ allocations[cc].TotalCost = RuleShare(allocCfg.SharedCostSplit, cc)

\* untagged records only and one rule of 50 percent: half of the pool is
\* allocated, the other half is not
C26_Witness ==
    /\ Allocated /\ RecordsOf("") # {} /\ TaggedCenters = {}
    /\ PercentSum(allocCfg.SharedCostSplit) = 50
    /\ DOMAIN allocations = {"Ops"}
    /\ allocations["Ops"].AllocatedCost.num * 2 = Pool * allocations["Ops"].AllocatedCost.den
    /\ QGt(Q(Pool), SumAllocated(allocations))

\* ---------------------------------------------------------------- C28
\* the fetch goroutines inside the merge section
InMergeSection == { p \in snapshot : taskPc[p] = "merge" }

RECURSIVE Blocks(_, _)
\* the entry lists of the providers named in order, one after another
Blocks(order, f) ==
    IF order = << >> THEN << >> ELSE f[Head(order)] \o Blocks(Tail(order), f)

\* C28: at most one fetch goroutine is inside the merge section at any
\* time; so the Entries of a returned result are the lists of the succeeding
\* providers, each as one block in the order its provider returned it, and
\* TotalCost and the breakdown maps hold every update.
C28_MergesExclusive ==
    /\ Cardinality(InMergeSection) <= 1
    /\ \A p \in InMergeSection : mu = p
    /\ (Returned /\ ret.kind = "result") =>
          /\ \E order \in IterationOrders(Succeeded) :
                result.Entries = Blocks(order, fetched)
          /\ result.TotalCost = SumFetched(Succeeded, fetched)
          /\ \A k \in DOMAIN result.ByProvider :
                result.ByProvider[k] = SumOf([i \in 1..Len(result.Entries) |->
                    IF result.Entries[i].Provider = k THEN result.Entries[i].Cost ELSE 0])
          /\ \A k \in DOMAIN result.ByService :
                result.ByService[k] = SumOf([i \in 1..Len(result.Entries) |->
                    IF result.Entries[i].Service = k THEN result.Entries[i].Cost ELSE 0])

\* a goroutine has read the result inside the merge section while another,
\* with entries to merge, waits for the mutex
C28_Witness ==
    \E p, q \in snapshot :
        /\ taskPc[p] = "merge" /\ loaded[p] # << >> /\ Len(fetched[p]) >= 2
        /\ taskPc[q] = "lock" /\ fetched[q] # << >>

\* ---------------------------------------------------------------- C29
\* C29: a goroutine about to send its error always finds room in errCh,
\* errCh is closed only when every goroutine has finished, a call with no
\* provider returns the empty result and no error, and every Aggregate call
\* that has started its goroutines returns.
C29_Terminates ==
    /\ [](\A p \in snapshot : taskPc[p] = "send" => Len(errCh) < Cardinality(snapshot))
    /\ [](errClosed => \A p \in snapshot : taskPc[p] = "done")
    /\ []((Returned /\ snapshot = {}) => (ret.kind = "result" /\ result = EmptyResult))
    /\ (mainPc = "wait") ~> Returned

\* every provider failed: the channel is full and the last goroutine has
\* sent without blocking
C29_Witness ==
    /\ Cardinality(snapshot) >= 2
    /\ Len(errCh) = Cardinality(snapshot)
    /\ ~errClosed

\* ---------------------------------------------------------------- C27
\* what DetectAnomalies reports on the entries merged in one fixed order
AnomaliesInFixedOrder ==
    LET es == MergeInFixedOrder(EmptyResult, Succeeded, fetched).Entries
    IN Range(DetectAnomalies(es, anomalyCfg,
                 CHOOSE order \in IterationOrders(SeriesKeys(es)) : TRUE))

\* C27 (as claimed): for given fetch outcomes the set of anomalies
\* DetectAnomalies reports on the result of Aggregate is the same under
\* every interleaving of the fetch goroutines.
C27_AnomaliesOrderIndependent ==
    (Returned /\ aggPc = "done") => Range(aggAnomalies) = AnomaliesInFixedOrder

====
